---- MODULE Spec2Model ----
(***************************************************************************)
(* markdown2html.py: the line-by-line Markdown to HTML conversion.         *)
(* A line is a sequence of one-character strings; the output file is the   *)
(* sequence of the strings handed to html.write, in order.                 *)
(***************************************************************************)
EXTENDS Integers, Sequences, FiniteSets, TLC

VARIABLES html, unordered_start, ordered_start, paragraph, pc, hist, closing,
          argc, isfile, output, status, stderr

vars == <<html, unordered_start, ordered_start, paragraph, pc, hist, closing,
          argc, isfile, output, status, stderr>>

\* The command line and what the run reports: argc is len(sys.argv), isfile
\* is os.path.isfile of the input path, status the exit status (-1 while the
\* script runs), stderr the messages printed to sys.stderr.
cli == <<argc, isfile, status, stderr>>

(***************************************************************************)
(* Bounds of the model.                                                    *)
(***************************************************************************)
MaxLines == 3
MaxHash == 7
MaxInline == 5
MaxPieces == 3

(***************************************************************************)
(* Python string primitives, on sequences of characters.                   *)
(***************************************************************************)
NL == "\n"

Whitespace == {" ", "\n", "\t", "\r"}

RECURSIVE lstrip(_, _)
lstrip(s, ch) ==
    IF s # <<>> /\ Head(s) = ch THEN lstrip(Tail(s), ch) ELSE s

RECURSIVE lstrip_ws(_)
lstrip_ws(s) ==
    IF s # <<>> /\ Head(s) \in Whitespace THEN lstrip_ws(Tail(s)) ELSE s

RECURSIVE rstrip_ws(_)
rstrip_ws(s) ==
    IF s # <<>> /\ s[Len(s)] \in Whitespace
    THEN rstrip_ws(SubSeq(s, 1, Len(s) - 1))
    ELSE s

strip(s) == rstrip_ws(lstrip_ws(s))

\* str.find: the least index at which old occurs in s, 0 when it does not.
find(s, old) ==
    LET hits == {i \in 1..(Len(s) - Len(old) + 1) :
                    SubSeq(s, i, i + Len(old) - 1) = old}
    IN  IF hits = {} THEN 0 ELSE CHOOSE i \in hits : \A j \in hits : i <= j

\* str.replace(old, new, count): the first count occurrences, left to
\* right and non-overlapping; every occurrence when count is negative.
RECURSIVE replace(_, _, _, _)
replace(s, old, new, count) ==
    LET i == find(s, old)
    IN  IF count = 0 \/ i = 0
        THEN s
        ELSE SubSeq(s, 1, i - 1) \o new
             \o replace(SubSeq(s, i + Len(old), Len(s)), old, new, count - 1)

(***************************************************************************)
(* The literal strings of the program.                                     *)
(***************************************************************************)
B_OPEN == <<"<", "b", ">">>
B_CLOSE == <<"<", "/", "b", ">">>
EM_OPEN == <<"<", "e", "m", ">">>
EM_CLOSE == <<"<", "/", "e", "m", ">">>
UL_OPEN == <<"<", "u", "l", ">", "\n">>
UL_CLOSE == <<"<", "/", "u", "l", ">", "\n">>
OL_OPEN == <<"<", "o", "l", ">", "\n">>
OL_CLOSE == <<"<", "/", "o", "l", ">", "\n">>
P_OPEN == <<"<", "p", ">", "\n">>
P_CLOSE == <<"<", "/", "p", ">", "\n">>
BR == <<"<", "b", "r", "/", ">", "\n">>
LI_OPEN == <<"<", "l", "i", ">">>
LI_CLOSE == <<"<", "/", "l", "i", ">", "\n">>

\* '{}'.format(n) for the numbers the model reaches.
Digits == <<"1", "2", "3", "4", "5", "6", "7", "8", "9">>

H_OPEN(n) == <<"<", "h", Digits[n], ">">>
H_CLOSE(n) == <<"<", "/", "h", Digits[n], ">", "\n">>

(***************************************************************************)
(* Inline transforms.                                                      *)
(***************************************************************************)
convert_bold(line) ==
    LET l1 == replace(line, <<"*", "*">>, B_OPEN, 1)
        l2 == replace(l1, <<"*", "*">>, B_CLOSE, 1)
        l3 == replace(l2, <<"_", "_">>, EM_OPEN, 1)
        l4 == replace(l3, <<"_", "_">>, EM_CLOSE, 1)
    IN  l4

\* re.findall(open + '.+?' + close)[0]: the leftmost match, the lazy
\* quantifier taking the shortest content of at least one character, none
\* of them a newline. <<i, j>> are the positions of the opening and the
\* closing delimiter; <<0, 0>> when there is no match.
first_span(line, open, close) ==
    LET ends(i) == {j \in (i + 3)..(Len(line) - 1) :
                       /\ SubSeq(line, j, j + 1) = close
                       /\ \A k \in (i + 2)..(j - 1) : line[k] # NL}
        starts == {i \in 1..(Len(line) - 1) :
                       SubSeq(line, i, i + 1) = open /\ ends(i) # {}}
    IN  IF starts = {}
        THEN <<0, 0>>
        ELSE LET i == CHOOSE a \in starts : \A b \in starts : a <= b
                 j == CHOOSE a \in ends(i) : \A b \in ends(i) : a <= b
             IN  <<i, j>>

\* hashlib.md5(text.encode()).hexdigest(): 32 lowercase hexadecimal
\* characters determined by the text. The digest itself is not computed:
\* each character of the text stands for one hexadecimal digit.
HexChars == <<"0", "1", "2", "3", "4", "5", "6", "7",
              "8", "9", "a", "b", "c", "d", "e", "f">>

Charset == <<"\n", " ", "#", "-", "*", "_", "a", "b", "c", "C",
             "[", "]", "(", ")", "<", ">">>

HexOf(ch) ==
    IF \E i \in 1..Len(Charset) : Charset[i] = ch
    THEN HexChars[CHOOSE i \in 1..Len(Charset) : Charset[i] = ch]
    ELSE "f"

hexdigest(text) ==
    [i \in 1..32 |-> IF i <= Len(text) THEN HexOf(text[i]) ELSE "0"]


\* convert_md5 assigning the digest to line instead of substituting it.
convert_md5_whole_line(line) ==
    LET m == first_span(line, <<"[", "[">>, <<"]", "]">>)
    IN  IF m[1] = 0
        THEN line
        ELSE hexdigest(SubSeq(line, m[1] + 2, m[2] - 1))

convert_md5(line) ==
    LET m == first_span(line, <<"[", "[">>, <<"]", "]">>)
    IN  IF m[1] = 0
        THEN line
        ELSE LET md5_0 == SubSeq(line, m[1], m[2] + 1)
                 md5_text_0 == SubSeq(line, m[1] + 2, m[2] - 1)
             IN  replace(line, md5_0, hexdigest(md5_text_0), -1)

remove_letter_c(line) ==
    LET m == first_span(line, <<"(", "(">>, <<")", ")">>)
    IN  IF m[1] = 0
        THEN line
        ELSE LET matches_c_0 == SubSeq(line, m[1], m[2] + 1)
                 removed_c_text == SelectSeq(SubSeq(line, m[1] + 2, m[2] - 1),
                                             LAMBDA ch : ch \notin {"C", "c"})
             IN  replace(line, matches_c_0, removed_c_text, -1)

convert_line(line) == remove_letter_c(convert_md5(convert_bold(line)))

(***************************************************************************)
(* process_line: the block-structure step for one (converted) line.        *)
(* The result carries the strings written to html, in order, and the three *)
(* returned flags.                                                         *)
(***************************************************************************)
\* line 147
is_heading(heading_num) == 1 <= heading_num /\ heading_num <= 6



\* list_ended with the test of the count inverted.
list_ended_on_item(start, num) == start /\ num # 0

\* list_ended with the test of the flag negated.
list_ended_negated(start, num) == ~start /\ num = 0

\* lines 162 and 174
list_ended(start, num) == start /\ num = 0


\* paragraph_step testing the list flags only.
paragraph_step_lists_only(heading_num, us, os) == ~(us \/ os)

\* line 179
paragraph_step(heading_num, us, os) == ~(heading_num # 0 \/ us \/ os)


\* line_written with the bound off by one.
line_written_from_one(length) == length >= 1

\* line 193
line_written(length) == length > 1

process_line(line, us, os, p) ==
    LET length == Len(line)
        headings == lstrip(line, "#")
        heading_num == length - Len(headings)
        unordered == lstrip(line, "-")
        unordered_num == length - Len(unordered)
        ordered == lstrip(line, "*")
        ordered_num == length - Len(ordered)
        \* lines 147-153
        line1 == IF is_heading(heading_num)
                 THEN H_OPEN(heading_num) \o strip(headings) \o H_CLOSE(heading_num)
                 ELSE line
        \* lines 155-161
        w1 == IF unordered_num # 0 /\ ~us THEN <<UL_OPEN>> ELSE <<>>
        us1 == IF unordered_num # 0 THEN TRUE ELSE us
        line2 == IF unordered_num # 0
                 THEN LI_OPEN \o strip(unordered) \o LI_CLOSE
                 ELSE line1
        \* lines 162-165
        w2 == IF list_ended(us1, unordered_num) THEN w1 \o <<UL_CLOSE>> ELSE w1
        us2 == IF list_ended(us1, unordered_num) THEN FALSE ELSE us1
        \* lines 167-173
        w3 == IF ordered_num # 0 /\ ~os THEN w2 \o <<OL_OPEN>> ELSE w2
        os1 == IF ordered_num # 0 THEN TRUE ELSE os
        line3 == IF ordered_num # 0
                 THEN LI_OPEN \o strip(ordered) \o LI_CLOSE
                 ELSE line2
        \* lines 174-177
        w4 == IF list_ended(os1, ordered_num) THEN w3 \o <<OL_CLOSE>> ELSE w3
        os2 == IF list_ended(os1, ordered_num) THEN FALSE ELSE os1
        \* lines 179-191
        par == paragraph_step(heading_num, us2, os2)
        w5 == IF par /\ ~p /\ length > 1 THEN w4 \o <<P_OPEN>>
              ELSE IF par /\ length > 1 THEN w4 \o <<BR>>
              ELSE IF par /\ p THEN w4 \o <<P_CLOSE>>
              ELSE w4
        p1 == IF par /\ ~p /\ length > 1 THEN TRUE
              ELSE IF par /\ length > 1 THEN p
              ELSE IF par /\ p THEN FALSE
              ELSE p
        \* lines 193-195
        w6 == IF line_written(length) THEN w5 \o <<line3>> ELSE w5
    IN  [w |-> w6, unordered_start |-> us2, ordered_start |-> os2, paragraph |-> p1]

(***************************************************************************)
(* close_open_tags: the strings written after the last line.               *)
(***************************************************************************)

\* close_open_tags without its last test.
close_open_tags_lists_only(us, os, p) ==
    (IF us THEN <<UL_CLOSE>> ELSE <<>>)
    \o (IF os THEN <<OL_CLOSE>> ELSE <<>>)

close_open_tags(us, os, p) ==
    (IF us THEN <<UL_CLOSE>> ELSE <<>>)
    \o (IF os THEN <<OL_CLOSE>> ELSE <<>>)
    \o (IF p THEN <<P_CLOSE>> ELSE <<>>)

(***************************************************************************)
(* The input: what iterating over a text file yields. Every line but the   *)
(* last ends with a newline; the last may lack it; no line is empty.       *)
(***************************************************************************)
Hashes(k) == [i \in 1..k |-> "#"]

Body == <<" ", "b", " ">>

\* Blank and paragraph text, headings of every level up to MaxHash, list
\* items of both kinds; a marker alone and a marker with text to trim.
BlockTexts ==
    {<<>>, Body}
    \cup {Hashes(k) \o Body : k \in 1..MaxHash}
    \cup {<<"#">>, <<"-">>, <<"*">>}
    \cup {<<"-">> \o Body, <<"*">> \o Body}

\* What the iterator can yield next: a text and its newline, or, as the
\* last line of the file, a non-empty text without one.
FileLines(texts) == {t \o <<NL>> : t \in texts} \cup (texts \ {<<>>})

BlockLines == FileLines(BlockTexts)

(***************************************************************************)
(* convert_and_write_html as a state machine: pc = "loop" inside the for   *)
(* loop, "eof" when the iterator has yielded a last line without newline,  *)
(* "done" once close_open_tags has run. hist records, per processed line,  *)
(* the raw line, the converted line, the flags passed to process_line,     *)
(* what it wrote and the flags it returned; closing records what           *)
(* close_open_tags wrote. output is the state of the output file:          *)
(* "untouched" until open(output_file, 'w'), then "open", and "closed"     *)
(* when the with block is left. Init is the state on entering the loop of  *)
(* a run whose arguments passed both checks.                               *)
(***************************************************************************)
Init ==
    /\ argc = 3
    /\ isfile = TRUE
    /\ output = "open"
    /\ status = -1
    /\ stderr = <<>>
    /\ html = <<>>
    /\ unordered_start = FALSE
    /\ ordered_start = FALSE
    /\ paragraph = FALSE
    /\ pc = "loop"
    /\ hist = <<>>
    /\ closing = <<>>

\* One iteration of the for loop (lines 241-247) on the line raw.
LoopBody(raw) ==
    /\ pc = "loop"
    /\ LET line == convert_line(raw)
           r == process_line(line, unordered_start, ordered_start, paragraph)
       IN  /\ html' = html \o r.w
           /\ unordered_start' = r.unordered_start
           /\ ordered_start' = r.ordered_start
           /\ paragraph' = r.paragraph
           /\ hist' = Append(hist, [raw |-> raw, line |-> line,
                                    us |-> unordered_start, os |-> ordered_start,
                                    p |-> paragraph, w |-> r.w,
                                    us1 |-> r.unordered_start,
                                    os1 |-> r.ordered_start,
                                    p1 |-> r.paragraph])
    /\ pc' = IF raw[Len(raw)] = NL THEN "loop" ELSE "eof"
    /\ UNCHANGED <<closing, output, cli>>

\* The iterator yields one more line of a file of at most n lines.
Iterate(from, n) ==
    /\ Len(hist) < n
    /\ \E raw \in from : LoopBody(raw)

\* The end of the loop (line 250) and of the with block (line 236).
Finalize ==
    /\ pc \in {"loop", "eof"}
    /\ closing' = close_open_tags(unordered_start, ordered_start, paragraph)
    /\ html' = html \o closing'
    /\ pc' = "done"
    /\ output' = "closed"
    /\ UNCHANGED <<unordered_start, ordered_start, paragraph, hist, cli>>

Next == Iterate(BlockLines, MaxLines) \/ Finalize

Spec == Init /\ [][Next]_vars

TypeOK ==
    /\ pc \in {"main", "process_markdown", "convert", "loop", "eof", "done",
              "exited"}
    /\ output \in {"untouched", "open", "closed"}
    /\ status \in {-1, 0, 1}
    /\ unordered_start \in BOOLEAN
    /\ ordered_start \in BOOLEAN
    /\ paragraph \in BOOLEAN

(***************************************************************************)
(* The single-line inputs of the inline transforms: every text of at most  *)
(* MaxInline characters over the two delimiters' characters and a letter.  *)
(***************************************************************************)
InlineChars == {"*", "_", "a"}

InlineTexts == UNION {[1..n -> InlineChars] : n \in 0..MaxInline}

InlineLines == FileLines(InlineTexts)

NextInline == Iterate(InlineLines, 1) \/ Finalize

SpecInline == Init /\ [][NextInline]_vars

(***************************************************************************)
(* Vocabulary of the properties.                                           *)
(***************************************************************************)
\* How many of the writes in w are the string frag.
Occurrences(w, frag) == Cardinality({k \in 1..Len(w) : w[k] = frag})

\* The number of non-overlapping occurrences of old in s (str.count).
RECURSIVE count(_, _)
count(s, old) ==
    LET i == find(s, old)
    IN  IF i = 0 THEN 0 ELSE 1 + count(SubSeq(s, i + Len(old), Len(s)), old)

HasPrefix(s, pre) == Len(s) >= Len(pre) /\ SubSeq(s, 1, Len(pre)) = pre

IsHeadingFragment(f) == HasPrefix(f, <<"<", "h">>)

IsItemFragment(f) == HasPrefix(f, LI_OPEN)

Flag(b) == IF b THEN 1 ELSE 0

\* Opening tags written so far and not yet closed.
Unclosed(w, open, close) == Occurrences(w, open) - Occurrences(w, close)

(***************************************************************************)
(* C1: every block left open at end-of-input is closed exactly once by     *)
(* close_open_tags and nothing else is closed there; in the complete       *)
(* output the opening and closing tags of each block kind are equal in     *)
(* number, and a closing tag is only ever written for a block whose flag   *)
(* is true (so, while the loop runs, the unclosed tags of each kind are    *)
(* exactly the flag).                                                      *)
(***************************************************************************)
C1_ClosedExactlyOnce ==
    /\ pc # "done" =>
          /\ Unclosed(html, UL_OPEN, UL_CLOSE) = Flag(unordered_start)
          /\ Unclosed(html, OL_OPEN, OL_CLOSE) = Flag(ordered_start)
          /\ Unclosed(html, P_OPEN, P_CLOSE) = Flag(paragraph)
    /\ \A i \in 1..Len(hist) :
          /\ Occurrences(hist[i].w, UL_CLOSE) <= Flag(hist[i].us)
          /\ Occurrences(hist[i].w, OL_CLOSE) <= Flag(hist[i].os)
          /\ Occurrences(hist[i].w, P_CLOSE) <= Flag(hist[i].p)
    /\ pc = "done" =>
          /\ Occurrences(closing, UL_CLOSE) = Flag(unordered_start)
          /\ Occurrences(closing, OL_CLOSE) = Flag(ordered_start)
          /\ Occurrences(closing, P_CLOSE) = Flag(paragraph)
          /\ Len(closing) = Flag(unordered_start) + Flag(ordered_start)
                            + Flag(paragraph)
          /\ Unclosed(html, UL_OPEN, UL_CLOSE) = 0
          /\ Unclosed(html, OL_OPEN, OL_CLOSE) = 0
          /\ Unclosed(html, P_OPEN, P_CLOSE) = 0

\* A list and a paragraph are both left open by the last line and both are
\* closed by close_open_tags.
C1_Witness ==
    /\ pc = "done"
    /\ unordered_start /\ paragraph
    /\ closing = <<UL_CLOSE, P_CLOSE>>

(***************************************************************************)
(* C2 as stated: after any line at most one of unordered-open,             *)
(* ordered-open and paragraph-open is true.                                *)
(***************************************************************************)
C2_AtMostOneFlag ==
    Flag(unordered_start) + Flag(ordered_start) + Flag(paragraph) <= 1

(***************************************************************************)
(* C2 amended: after any line at most one of the two list flags is true,   *)
(* and no line leaves paragraph-open true together with a list flag unless *)
(* paragraph-open was already true before that line.                       *)
(***************************************************************************)
C2_ListFlagsExclusive ==
    /\ ~(unordered_start /\ ordered_start)
    /\ \A i \in 1..Len(hist) :
          /\ ~(hist[i].us1 /\ hist[i].os1)
          /\ (hist[i].p1 /\ (hist[i].us1 \/ hist[i].os1)) => hist[i].p

\* A list switches kind inside a paragraph that an earlier line opened.
C2_Witness ==
    /\ Len(hist) = 3
    /\ hist[2].us1 /\ hist[2].p1
    /\ ordered_start /\ paragraph /\ ~unordered_start

(***************************************************************************)
(* Runs of list items. hist[a..b] is a maximal run of lines beginning with *)
(* the marker ch; Writes(a, b) is what those lines wrote; After(b) is what *)
(* the line after the run wrote, or close_open_tags when the run ends the  *)
(* input.                                                                  *)
(***************************************************************************)
BeginsWith(line, ch) == line # <<>> /\ line[1] = ch

IsRun(a, b, ch) ==
    /\ a <= b
    /\ \A i \in a..b : BeginsWith(hist[i].line, ch)
    /\ a = 1 \/ ~BeginsWith(hist[a - 1].line, ch)
    /\ b = Len(hist) \/ ~BeginsWith(hist[b + 1].line, ch)

RECURSIVE Writes(_, _)
Writes(a, b) == IF a > b THEN <<>> ELSE hist[a].w \o Writes(a + 1, b)

After(b) == IF b < Len(hist) THEN hist[b + 1].w ELSE closing

Item(line, ch) == LI_OPEN \o strip(lstrip(line, ch)) \o LI_CLOSE

ListRunAsClaimed(a, b, ch, open, close) ==
    LET w == Writes(a, b)
    IN  /\ Occurrences(w, open) = 1
        /\ \E k \in 1..Len(w) :
              w[k] = open /\ \A j \in 1..(k - 1) : ~IsItemFragment(w[j])
        /\ SelectSeq(w, IsItemFragment)
              = [i \in 1..(b - a + 1) |-> Item(hist[a + i - 1].line, ch)]
        /\ Occurrences(w, close) = 0
        /\ After(b) # <<>>
        /\ After(b)[1] = close
        /\ Occurrences(After(b), close) = 1

(***************************************************************************)
(* C3 as stated: in the complete output, a maximal run of lines beginning  *)
(* with `-` that starts with unordered-open false has exactly one `<ul>`   *)
(* before its first item, one `<li>trimmed remainder</li>` per line in     *)
(* input order, and exactly one `</ul>`, the first thing written by the    *)
(* line after the run or by close_open_tags.                               *)
(***************************************************************************)
C3_UnorderedRun ==
    pc = "done" =>
        \A a \in 1..Len(hist), b \in 1..Len(hist) :
            (IsRun(a, b, "-") /\ ~hist[a].us)
                => ListRunAsClaimed(a, b, "-", UL_OPEN, UL_CLOSE)

(***************************************************************************)
(* C4 as stated: the same of a maximal run of lines beginning with `*`,    *)
(* with `<ol>` and `</ol>`: the single `</ol>` is the first thing written  *)
(* by the line after the run, whatever that line is.                       *)
(***************************************************************************)
C4_OrderedRun ==
    pc = "done" =>
        \A a \in 1..Len(hist), b \in 1..Len(hist) :
            (IsRun(a, b, "*") /\ ~hist[a].os)
                => ListRunAsClaimed(a, b, "*", OL_OPEN, OL_CLOSE)

(***************************************************************************)
(* Runs of paragraph text. A paragraph line is longer than one character,  *)
(* is not a heading (1 to 6 leading `#`) and is not a list item.           *)
(***************************************************************************)
HeadingNum(line) == Len(line) - Len(lstrip(line, "#"))

IsParagraphLine(line) ==
    /\ Len(line) > 1
    /\ HeadingNum(line) \notin 1..6
    /\ ~BeginsWith(line, "-")
    /\ ~BeginsWith(line, "*")

IsParagraphRun(a, b) ==
    /\ a <= b
    /\ \A i \in a..b : IsParagraphLine(hist[i].line)
    /\ a = 1 \/ ~IsParagraphLine(hist[a - 1].line)
    /\ b = Len(hist) \/ ~IsParagraphLine(hist[b + 1].line)

ParagraphRunAsClaimed(a, b) ==
    LET closers == {c \in (b + 1)..Len(hist) :
                       Occurrences(hist[c].w, P_CLOSE) > 0}
    IN  /\ hist[a].w = <<P_OPEN, hist[a].line>>
        /\ \A i \in (a + 1)..b : hist[i].w = <<BR, hist[i].line>>
        /\ IF closers = {}
           THEN /\ \A i \in a..Len(hist) : hist[i].p1
                /\ Occurrences(closing, P_CLOSE) = 1
           ELSE LET c == CHOOSE x \in closers : \A y \in closers : x <= y
                IN  /\ Len(hist[c].line) <= 1
                    /\ \A i \in (b + 1)..(c - 1) : Len(hist[i].line) > 1
                    /\ Occurrences(hist[c].w, P_CLOSE) = 1
                    /\ \A i \in a..(c - 1) : hist[i].p1
                    /\ ~hist[c].p1

(***************************************************************************)
(* C5 as stated: in the complete output, a maximal run of paragraph lines  *)
(* that starts with no list and no paragraph open writes `<p>` and the     *)
(* first line, then `<br/>` and the line for each further line, and        *)
(* `</p>` exactly once, at the next line of length <= 1 or in              *)
(* close_open_tags; paragraph-open is true exactly between the two tags.   *)
(***************************************************************************)
C5_ParagraphRun ==
    pc = "done" =>
        \A a \in 1..Len(hist), b \in 1..Len(hist) :
            (IsParagraphRun(a, b) /\ ~hist[a].us /\ ~hist[a].os /\ ~hist[a].p)
                => ParagraphRunAsClaimed(a, b)

(***************************************************************************)
(* C6 as stated: every line with N leading `#`, 1 <= N <= 6, in every      *)
(* block state and of every length, makes process_line write               *)
(* `<hN>` + trimmed remaining text + `</hN>`; a line with N = 0 or N > 6   *)
(* makes it write no heading.                                              *)
(***************************************************************************)
C6_HeadingWritten ==
    \A i \in 1..Len(hist) :
        LET line == hist[i].line
            n == HeadingNum(line)
        IN  /\ (1 <= n /\ n <= 6) =>
                  \E k \in 1..Len(hist[i].w) :
                      hist[i].w[k] = H_OPEN(n) \o strip(lstrip(line, "#"))
                                     \o H_CLOSE(n)
            /\ (n = 0 \/ n > 6) =>
                  \A k \in 1..Len(hist[i].w) : ~IsHeadingFragment(hist[i].w[k])

(***************************************************************************)
(* C7 as stated: no heading, list item, `<ul>` or `<ol>` is written to the *)
(* output at a point where a `<p>` has been written and its `</p>` has     *)
(* not.                                                                    *)
(***************************************************************************)
IsHeadingOrList(f) ==
    IsHeadingFragment(f) \/ IsItemFragment(f) \/ f = UL_OPEN \/ f = OL_OPEN

C7_NeverInsideParagraph ==
    \A k \in 1..Len(html) :
        IsHeadingOrList(html[k])
            => Unclosed(SubSeq(html, 1, k - 1), P_OPEN, P_CLOSE) = 0

(***************************************************************************)
(* C7 amended: a line for which process_line writes a heading, a list      *)
(* item, `<ul>` or `<ol>` gets no paragraph handling: on that line it      *)
(* writes none of `<p>`, `<br/>`, `</p>` and leaves paragraph-open as it   *)
(* was.                                                                    *)
(***************************************************************************)
C7_NoParagraphHandling ==
    \A i \in 1..Len(hist) :
        (\E k \in 1..Len(hist[i].w) : IsHeadingOrList(hist[i].w[k]))
            => /\ Occurrences(hist[i].w, P_OPEN) = 0
               /\ Occurrences(hist[i].w, BR) = 0
               /\ Occurrences(hist[i].w, P_CLOSE) = 0
               /\ hist[i].p1 = hist[i].p

\* A heading and then a list item are written while the paragraph an
\* earlier line opened is still open.
C7_Witness ==
    /\ Len(hist) = 3
    /\ hist[2].p /\ \E k \in 1..Len(hist[2].w) : IsHeadingFragment(hist[2].w[k])
    /\ hist[3].p /\ \E k \in 1..Len(hist[3].w) : IsItemFragment(hist[3].w[k])
    /\ paragraph

(***************************************************************************)
(* C8 as stated: a line with more than 6 leading `#` and length > 1,       *)
(* with no list open after the list steps, gets paragraph handling:        *)
(* process_line writes `<p>` (and sets paragraph-open) if no paragraph is  *)
(* open, `<br/>` if one is, and then the line.                             *)
(***************************************************************************)
C8_LongHashRunIsParagraph ==
    \A i \in 1..Len(hist) :
        LET line == hist[i].line
            w == hist[i].w
        IN  (HeadingNum(line) > 6 /\ Len(line) > 1
                /\ ~hist[i].us1 /\ ~hist[i].os1)
                => /\ Len(w) >= 2
                   /\ w[Len(w)] = line
                   /\ w[Len(w) - 1] = (IF hist[i].p THEN BR ELSE P_OPEN)
                   /\ hist[i].p1

(***************************************************************************)
(* C9 as stated: every string written to the output, by process_line or    *)
(* by close_open_tags, ends with a newline.                                *)
(***************************************************************************)
C9_NewlineTerminated ==
    \A k \in 1..Len(html) :
        html[k] # <<>> /\ html[k][Len(html[k])] = NL

(***************************************************************************)
(* C10 as stated: a line with exactly one `**` still has it after the      *)
(* conversion and gets no `<b>`, a line with exactly one `__` still has    *)
(* it and gets no `<em>`; with two occurrences the first two become the    *)
(* opening and the closing tag.                                            *)
(***************************************************************************)
C10_UnmatchedLeftAlone ==
    \A i \in 1..Len(hist) :
        LET raw == hist[i].raw
            out == hist[i].line
        IN  /\ count(raw, <<"*", "*">>) = 1
                  => find(out, <<"*", "*">>) # 0 /\ find(out, B_OPEN) = 0
            /\ count(raw, <<"_", "_">>) = 1
                  => find(out, <<"_", "_">>) # 0 /\ find(out, EM_OPEN) = 0
            /\ count(raw, <<"*", "*">>) >= 2
                  => find(out, B_OPEN) # 0 /\ find(out, B_CLOSE) # 0
            /\ count(raw, <<"_", "_">>) >= 2
                  => find(out, EM_OPEN) # 0 /\ find(out, EM_CLOSE) # 0

(***************************************************************************)
(* Lines with spans: every text made of at most MaxPieces pieces, a piece  *)
(* being a letter, a block marker, a bold delimiter, a `[[...]]` span or a *)
(* `((...))` span. Two equal pieces in a row give two spans of identical   *)
(* text.                                                                   *)
(***************************************************************************)
Pieces ==
    {<<"a">>, <<"-">>, <<"#">>, <<"*", "*">>,
     <<"[", "[", "a", "]", "]">>, <<"[", "[", "c", "]", "]">>,
     <<"(", "(", "c", ")", ")">>, <<"(", "(", "c", "a", ")", ")">>}

RECURSIVE Join(_)
Join(ps) == IF ps = <<>> THEN <<>> ELSE Head(ps) \o Join(Tail(ps))

PieceTexts == UNION {{Join(ps) : ps \in [1..n -> Pieces]} : n \in 0..MaxPieces}

PieceLines == FileLines(PieceTexts)

NextSpans == Iterate(PieceLines, 1) \/ Finalize

SpecSpans == Init /\ [][NextSpans]_vars

\* The number of matches re.findall returns for open + '.+?' + close.
RECURSIVE SpanCount(_, _, _)
SpanCount(line, open, close) ==
    LET m == first_span(line, open, close)
    IN  IF m[1] = 0
        THEN 0
        ELSE 1 + SpanCount(SubSeq(line, m[2] + 2, Len(line)), open, close)

\* line with its first span, and nothing else, replaced by new.
FirstSpanReplaced(line, open, close, new) ==
    LET m == first_span(line, open, close)
    IN  SubSeq(line, 1, m[1] - 1) \o new \o SubSeq(line, m[2] + 2, Len(line))

SpanText(line, open, close) ==
    LET m == first_span(line, open, close)
    IN  SubSeq(line, m[1] + 2, m[2] - 1)

(***************************************************************************)
(* C11 as stated: on a line with two or more `[[...]]` spans convert_md5   *)
(* replaces the first span by the digest of its content and leaves every   *)
(* later span and every other character unchanged, also when the spans     *)
(* have identical text; likewise remove_letter_c on a line with two or     *)
(* more `((...))` spans.                                                   *)
(***************************************************************************)
C11_FirstSpanOnly ==
    \A i \in 1..Len(hist) :
        LET x == convert_bold(hist[i].raw)
            y == convert_md5(x)
        IN  /\ SpanCount(x, <<"[", "[">>, <<"]", "]">>) >= 2
                  => y = FirstSpanReplaced(x, <<"[", "[">>, <<"]", "]">>,
                            hexdigest(SpanText(x, <<"[", "[">>, <<"]", "]">>)))
            /\ SpanCount(y, <<"(", "(">>, <<")", ")">>) >= 2
                  => hist[i].line
                       = FirstSpanReplaced(y, <<"(", "(">>, <<")", ")">>,
                            SelectSeq(SpanText(y, <<"(", "(">>, <<")", ")">>),
                                      LAMBDA ch : ch \notin {"C", "c"}))

(***************************************************************************)
(* The whole script, from the command line to the exit status.             *)
(***************************************************************************)
\* line 279
too_few_arguments(n) == n < 3

\* input_missing that never reports a missing file.
input_missing_never(f) == FALSE

\* line 265
input_missing(f) == ~f

InitMain ==
    /\ argc \in 1..4
    /\ isfile \in BOOLEAN
    /\ output = "untouched"
    /\ status = -1
    /\ stderr = <<>>
    /\ html = <<>>
    /\ unordered_start = FALSE
    /\ ordered_start = FALSE
    /\ paragraph = FALSE
    /\ pc = "main"
    /\ hist = <<>>
    /\ closing = <<>>

\* lines 277-287
Main ==
    /\ pc = "main"
    /\ IF too_few_arguments(argc)
       THEN /\ stderr' = Append(stderr, "Usage")
            /\ status' = 1
            /\ pc' = "exited"
       ELSE /\ pc' = "process_markdown"
            /\ UNCHANGED <<stderr, status>>
    /\ UNCHANGED <<html, unordered_start, ordered_start, paragraph, hist,
                   closing, argc, isfile, output>>

\* lines 265-273
ProcessMarkdown ==
    /\ pc = "process_markdown"
    /\ IF input_missing(isfile)
       THEN /\ stderr' = Append(stderr, "Missing")
            /\ status' = 1
            /\ pc' = "exited"
       ELSE /\ pc' = "convert"
            /\ UNCHANGED <<stderr, status>>
    /\ UNCHANGED <<html, unordered_start, ordered_start, paragraph, hist,
                   closing, argc, isfile, output>>

\* lines 236-238
OpenOutput ==
    /\ pc = "convert"
    /\ output' = "open"
    /\ html' = <<>>
    /\ unordered_start' = FALSE
    /\ ordered_start' = FALSE
    /\ paragraph' = FALSE
    /\ pc' = "loop"
    /\ UNCHANGED <<hist, closing, cli>>

\* line 290
Exit0 ==
    /\ pc = "done"
    /\ status' = 0
    /\ pc' = "exited"
    /\ UNCHANGED <<html, unordered_start, ordered_start, paragraph, hist,
                   closing, argc, isfile, output, stderr>>

NextMain ==
    \/ Main
    \/ ProcessMarkdown
    \/ OpenOutput
    \/ Iterate(InlineLines, 1)
    \/ Finalize
    \/ Exit0

SpecMain == InitMain /\ [][NextMain]_vars

SetupLines == {Body \o <<NL>>, <<"-", NL>>, <<"*", NL>>}

MixedPieces ==
    {<<"a">>, <<"-">>, <<"#">>, <<"*", "*">>,
     <<"[", "[", "a", "]", "]">>, <<"(", "(", "c", ")", ")">>}

MixedLines ==
    FileLines(UNION {{Join(ps) : ps \in [1..n -> MixedPieces]}
                     : n \in 0..MaxPieces})

OnlySetup == \A i \in 1..Len(hist) : hist[i].raw \in SetupLines

NextMixed ==
    \/ OnlySetup /\ Iterate(SetupLines, 2)
    \/ OnlySetup /\ Iterate(MixedLines, 3)
    \/ Finalize

SpecMixed == Init /\ [][NextMixed]_vars

\* How process_line treats a line: a heading, a list item, or else by its
\* length paragraph text or a blank separator.
Classification(line) ==
    IF HeadingNum(line) \in 1..6 THEN "heading"
    ELSE IF BeginsWith(line, "-") THEN "unordered item"
    ELSE IF BeginsWith(line, "*") THEN "ordered item"
    ELSE IF Len(line) > 1 THEN "paragraph text"
    ELSE "blank"

\* process_line gives the raw line of hist[i] the block state and the
\* classification it gave the converted line.
SameAsRaw(i) ==
    LET r == process_line(hist[i].raw, hist[i].us, hist[i].os, hist[i].p)
    IN  /\ r.unordered_start = hist[i].us1
        /\ r.ordered_start = hist[i].os1
        /\ r.paragraph = hist[i].p1
        /\ Classification(hist[i].raw) = Classification(hist[i].line)

(***************************************************************************)
(* C13 as stated: for every line and every block state, process_line on    *)
(* convert_line(line) gives the same next block state and the same         *)
(* classification as process_line on the raw line.                         *)
(***************************************************************************)
C13_TransformsKeepBlockState ==
    \A i \in 1..Len(hist) : SameAsRaw(i)

(***************************************************************************)
(* C13 amended: the same, for every line that does not begin with `**`     *)
(* and contains no `((...))` span.                                         *)
(***************************************************************************)
NoLeadingBoldNoParens(raw) ==
    /\ ~HasPrefix(raw, <<"*", "*">>)
    /\ first_span(raw, <<"(", "(">>, <<")", ")">>) = <<0, 0>>

C13_TransformsKeepBlockStateUnlessLeading ==
    \A i \in 1..Len(hist) :
        NoLeadingBoldNoParens(hist[i].raw) => SameAsRaw(i)

\* A list item with a `[[...]]` span, converted while a paragraph and a
\* list are open.
C13_Witness ==
    \E i \in 1..Len(hist) :
        /\ NoLeadingBoldNoParens(hist[i].raw)
        /\ hist[i].line # hist[i].raw
        /\ BeginsWith(hist[i].raw, "-")
        /\ hist[i].p /\ hist[i].us

(***************************************************************************)
(* The line as it stands after the heading and list rewrites.              *)
(***************************************************************************)
Rewritten(line) ==
    IF BeginsWith(line, "*") THEN Item(line, "*")
    ELSE IF BeginsWith(line, "-") THEN Item(line, "-")
    ELSE IF HeadingNum(line) \in 1..6
         THEN H_OPEN(HeadingNum(line)) \o strip(lstrip(line, "#"))
              \o H_CLOSE(HeadingNum(line))
    ELSE line

(***************************************************************************)
(* C14 as stated: process_line writes the line if and only if the line as  *)
(* it stands after the heading and list rewrites is longer than one        *)
(* character; whenever it writes `<ul>` or `<ol>` for a line it also       *)
(* writes that line's `<li>...</li>`.                                      *)
(***************************************************************************)
C14_EmissionOnRewrittenLine ==
    \A i \in 1..Len(hist) :
        LET w == hist[i].w
            rw == Rewritten(hist[i].line)
        IN  /\ Len(rw) > 1 <=> (w # <<>> /\ w[Len(w)] = rw)
            /\ (Occurrences(w, UL_OPEN) + Occurrences(w, OL_OPEN) > 0)
                  => \E k \in 1..Len(w) : IsItemFragment(w[k])

(***************************************************************************)
(* C15 as stated: when paragraph-open is false, a line of length <= 1      *)
(* makes process_line write nothing.                                       *)
(***************************************************************************)
C15_ShortLineWritesNothing ==
    \A i \in 1..Len(hist) :
        (~hist[i].p /\ Len(hist[i].line) <= 1) => hist[i].w = <<>>

(***************************************************************************)
(* C15 amended: when paragraph-open is false, a line of length <= 1 makes  *)
(* process_line write list tags only (`</ul>` or `</ol>` for a list the    *)
(* line ends, `<ul>` or `<ol>` when the line is a lone `-` or `*`), never  *)
(* the line and never a paragraph tag; it writes nothing when moreover no  *)
(* list is open and the line is not a lone `-` or `*`.                     *)
(***************************************************************************)
ListTags == {UL_OPEN, UL_CLOSE, OL_OPEN, OL_CLOSE}

C15_ShortLineWritesListTagsOnly ==
    \A i \in 1..Len(hist) :
        (~hist[i].p /\ Len(hist[i].line) <= 1)
            => /\ \A k \in 1..Len(hist[i].w) : hist[i].w[k] \in ListTags
               /\ ~hist[i].p1
               /\ (~hist[i].us /\ ~hist[i].os
                      /\ hist[i].line \notin {<<"-">>, <<"*">>})
                     => hist[i].w = <<>>

\* A blank line ends a list with no paragraph open and writes `</ul>`; a
\* second blank line writes nothing.
C15_Witness ==
    /\ Len(hist) = 3
    /\ hist[2].line = <<NL>> /\ ~hist[2].p /\ hist[2].us
    /\ hist[2].w = <<UL_CLOSE>>
    /\ hist[3].line = <<NL>> /\ ~hist[3].p /\ hist[3].w = <<>>

(***************************************************************************)
(* C16 as stated: the output is well nested in `<ul>`, `<ol>`, `<p>`:      *)
(* every closing tag written, by process_line or close_open_tags, matches  *)
(* the most recently written opening tag that is still unclosed.           *)
(***************************************************************************)
Openers == {UL_OPEN, OL_OPEN, P_OPEN}

Closers == {UL_CLOSE, OL_CLOSE, P_CLOSE}

OpenerOf(f) ==
    IF f = UL_CLOSE THEN UL_OPEN ELSE IF f = OL_CLOSE THEN OL_OPEN ELSE P_OPEN

\* stack holds the unclosed opening tags, the most recent first.
RECURSIVE Nested(_, _)
Nested(w, stack) ==
    IF w = <<>> THEN TRUE
    ELSE IF Head(w) \in Openers THEN Nested(Tail(w), <<Head(w)>> \o stack)
    ELSE IF Head(w) \in Closers
         THEN /\ stack # <<>>
              /\ Head(stack) = OpenerOf(Head(w))
              /\ Nested(Tail(w), Tail(stack))
    ELSE Nested(Tail(w), stack)

C16_WellNested == Nested(html, <<>>)

(***************************************************************************)
(* C17: for every line at most one of the leading `#`, `-` and `*` counts  *)
(* is non-zero; after process_line unordered-open is true exactly when     *)
(* the processed line begins with `-` and ordered-open exactly when it     *)
(* begins with `*`, whatever the flags were before; so the two list flags  *)
(* are never both true and no line is rewritten by both list branches.     *)
(***************************************************************************)
Leading(line, ch) == Len(line) - Len(lstrip(line, ch))

C17_ListFlagsFollowLine ==
    /\ \A i \in 1..Len(hist) :
          LET line == hist[i].line
          IN  /\ Cardinality({ch \in {"#", "-", "*"} : Leading(line, ch) # 0}) <= 1
              /\ hist[i].us1 <=> BeginsWith(line, "-")
              /\ hist[i].os1 <=> BeginsWith(line, "*")
              /\ ~(hist[i].us1 /\ hist[i].os1)
              /\ ~(Leading(line, "-") # 0 /\ Leading(line, "*") # 0)
    /\ ~(unordered_start /\ ordered_start)
    /\ Len(hist) > 0 =>
          /\ unordered_start = hist[Len(hist)].us1
          /\ ordered_start = hist[Len(hist)].os1

\* With an unordered list open, a line beginning with `*` leaves
\* ordered-open true and unordered-open false; the next line, converted
\* from `**`, begins with neither marker and leaves both false.
C17_Witness ==
    /\ Len(hist) = 3
    /\ hist[2].us /\ BeginsWith(hist[2].line, "*")
    /\ hist[2].os1 /\ ~hist[2].us1
    /\ HasPrefix(hist[3].raw, <<"*", "*">>)
    /\ ~unordered_start /\ ~ordered_start

====
